---- MODULE Spec2Model ----
(***************************************************************************)
(* Nearest-subspace classifiers RSCDT_NS (signed, RSCDT_NS.py) and         *)
(* MY_RDCT_NS (unsigned, rcdt_ns.py): batch transform, per-class subspace  *)
(* fitting and the projection-residual decision rule.                      *)
(*                                                                         *)
(* Numerical content.  A flattened coefficient array is written in an      *)
(* orthonormal frame of the feature space: a tuple of integer coordinates. *)
(* Training images are taken from the inputs whose transform lies along    *)
(* one frame axis, with distinct axes and distinct norms inside a class;   *)
(* on these inputs the reduced SVD is exact over the integers: the         *)
(* singular values are the norms in decreasing order and the rows of vh    *)
(* are the axes in that order.  The two translation rows of                *)
(* add_trans_samples lie along two further axes of the frame.              *)
(* LA.norm is kept squared (the square root is monotone, so argmin and     *)
(* its ties are those of the squares).                                     *)
(***************************************************************************)
EXTENDS Integers, Sequences, FiniteSets, TLC

\* ------------------------------------------------------------- bounds
MaxTrain == 3      \* longest training batch
MaxTest == 1       \* longest test batch
MaxBatch == 3      \* longest batch given to the batch transform directly
MaxCpu == 2        \* largest mp.cpu_count() the environment reports
MaxClasses == 2    \* largest num_classes given to the constructor
MaxFits == 2       \* fit calls on one classifier instance

\* ------------------------------------------------- external transform
\* Number of projection samples the external Radon transform returns for
\* the images of the model (before edge trimming).
ProjLen == 4

\* Angle set the external RadonSCDT constructor uses when it is given none
\* (the signed adapter builds RadonSCDT() without arguments).
LibTheta == <<0, 90>>

\* The module-level default angle set `theta` (scaled to three angles).
theta == <<0, 88, 176>>

\* Image identifiers.  BadImage is an image on which the external
\* forward transform raises.
BadImage == 0

\* Coordinates of the transform of image (I + eps), for I in 1..3:
\* axes 1,2 carry image content, axes 3,4 are the translation directions.
ImageCoeffs == << <<200, 0, 0, 0>>,
                  <<0, 3, 0, 0>>,
                  <<2, 2, 0, 0>> >>

Images == {BadImage} \cup (1..Len(ImageCoeffs))
Axes == 1..Len(ImageCoeffs[1])

\* Norms of the two translation rows v1, v2 built by add_trans_samples,
\* and the frame axes they lie along.
NormV1 == 5
NormV2 == 2
AxisV1 == 3
AxisV2 == 4

\* --------------------------------------------------------- sequences
RECURSIVE SeqSum(_)
SeqSum(s) == IF s = <<>> THEN 0 ELSE Head(s) + SeqSum(Tail(s))

RECURSIVE Concat(_)
Concat(ss) == IF ss = <<>> THEN <<>> ELSE Head(ss) \o Concat(Tail(ss))

Take(s, n) == SubSeq(s, 1, IF n < Len(s) THEN n ELSE Len(s))

Min2(a, b) == IF a < b THEN a ELSE b

\* An exception leaving an operation: the record without a value
Raise == [ok |-> FALSE]
Return(v) == [ok |-> TRUE, val |-> v]

\* ------------------------------------------------------------- state
VARIABLES
    variant,        \* "signed" (RSCDT_NS) or "unsigned" (MY_RDCT_NS)
    num_classes,    \* self.num_classes
    thetas,         \* self.thetas
    rm_edge,        \* self.rm_edge
    subspaces,      \* self.subspaces: list of bases, a basis a list of rows
    len_subspace,   \* self.len_subspace
    pc,             \* "idle", or "mapping" while pl.map is in progress
    call,           \* the call in progress or the last one: op, X, Y, ndm
    pl,             \* worker pool of the current or last call, and the
                    \* mp.cpu_count() that call saw
    splits,         \* chunks handed to pl.map
    results,        \* per chunk: NotDone or the chunk's coefficient arrays
    order,          \* chunk indices in the order the workers finished
    outcome,        \* "none", "ok" or "error": how the last call ended
    features,       \* value of the last batch transform
    adapter_args,   \* arguments the last batch handed to the external transform
    ranks,          \* max_basis of every class the last fit processed
    computed,       \* basis of every class the last fit processed
    D,              \* predict: per class, per sample squared residual
    preds,          \* predict: returned labels
    counts,         \* training samples per class in the last fit
    nfits,          \* number of fit calls so far
    good            \* ranks and bases of the most recent fit that returned

vars == <<variant, num_classes, thetas, rm_edge, subspaces, len_subspace, pc,
          call, pl, splits, results, order, outcome, features, adapter_args,
          ranks, computed, D, preds, counts, nfits, good>>

NotDone == [done |-> FALSE, val |-> <<>>]
NoPool == [state |-> "none", workers |-> 0, cpus |-> 0]
NoCall == [op |-> "none", X |-> <<>>, Y |-> <<>>, ndm |-> FALSE]
NoGood == [fitted |-> FALSE, ranks |-> <<>>, bases |-> <<>>]

\* ------------------------------------------------- transform adapter
\* The external forward transform: one image in, one coefficient array
\* out, of shape (rows, cols); raises on BadImage.
ExternalForward(angles, I, edge) ==
    IF I = BadImage THEN Raise
    ELSE Return([vec |-> ImageCoeffs[I],
                 rows |-> IF edge THEN ProjLen - 2 ELSE ProjLen,
                 cols |-> Len(angles)])

\* Arguments of the library call in RSCDT_NS.fun_rscdt_single:
\* RadonSCDT() without angles, forward(..., rm_edge=False).
rscdt_args == [angles |-> LibTheta, edge |-> FALSE]

\* Arguments of the library call in MY_RDCT_NS.fun_rcdt_single:
\* RadonCDT(self.thetas), forward(..., self.rm_edge).
rcdt_args == [angles |-> thetas, edge |-> rm_edge]

\* Arguments (angles, edge flag) with which the adapter calls the library.
PassedArgs == IF variant = "signed" THEN rscdt_args ELSE rcdt_args

fun_rscdt_single(I0) == ExternalForward(rscdt_args.angles, I0, rscdt_args.edge)

fun_rcdt_single(I) == ExternalForward(rcdt_args.angles, I, rcdt_args.edge)

fun_single(I) ==
    IF variant = "signed" THEN fun_rscdt_single(I) ELSE fun_rcdt_single(I)

\* fun_rscdt_batch / fun_rcdt_batch: the list comprehension over data[j];
\* an exception of one element leaves the comprehension.
fun_batch(data) ==
    IF \E j \in 1..Len(data) : ~fun_single(data[j]).ok THEN Raise
    ELSE Return([j \in 1..Len(data) |-> fun_single(data[j]).val])

\* Arguments handed to the library while transforming data, up to and
\* including the first element on which the library raises.
BatchArgs(data) == IF data = <<>> THEN {} ELSE {PassedArgs}

\* np.array_split(X, n, axis=0) for n > 0: the first Len(X) % n chunks
\* hold Len(X) \div n + 1 elements, the others Len(X) \div n.
ChunkStart(N, n, c) == (c - 1) * (N \div n) + Min2(c - 1, N % n)
array_split(X, n) ==
    [c \in 1..n |->
        SubSeq(X, ChunkStart(Len(X), n, c) + 1, ChunkStart(Len(X), n, c + 1))]

\* Mutant of vstack: the chunk results stacked in the order the workers
\* finished (as an unordered map would hand them back)
vstack_by_completion(res) == Concat([k \in 1..Len(order) |-> res[order[k]]])

\* np.vstack over the list pl.map returns: pl.map orders its results by
\* the position of the chunk in its argument, not by completion.
vstack(res) == Concat(res)

\* Shape (rows, cols) of the arrays of a transformed batch; <<>> for the
\* batch np.array([]) of shape (0,).
BatchShape(F) == IF F = <<>> THEN <<>> ELSE <<F[1].rows, F[1].cols>>

\* ---------------------------------------------------- linear algebra
Dot(x, y) == SeqSum([a \in Axes |-> x[a] * y[a]])

\* X @ basis.T, then (X @ basis.T) @ basis, for one row x of X
proj(x, basis) == [j \in 1..Len(basis) |-> Dot(x, basis[j])]
projR(x, basis) ==
    [a \in Axes |-> SeqSum([j \in 1..Len(basis) |-> proj(x, basis)[j] * basis[j][a]])]

\* LA.norm(projR - X, axis=1) for one row, squared
Residual(x, basis) ==
    SeqSum([a \in Axes |-> (projR(x, basis)[a] - x[a]) * (projR(x, basis)[a] - x[a])])

\* A row along one frame axis with a positive coefficient
AxisAligned(v) == Cardinality({a \in Axes : v[a] # 0}) = 1 /\ \A a \in Axes : v[a] >= 0
AxisOf(v) == CHOOSE a \in Axes : v[a] # 0
NormOf(v) == SeqSum(v)
UnitOf(v) == [a \in Axes |-> IF v[a] # 0 THEN 1 ELSE 0]

\* Images whose transform lies along one axis
TrainImages == {I \in 1..Len(ImageCoeffs) : AxisAligned(ImageCoeffs[I])}

\* Rows on which LA.svd is exact over the integers
SvdExact(flat) ==
    /\ \A i \in 1..Len(flat) : AxisAligned(flat[i])
    /\ \A i, j \in 1..Len(flat) :
          i # j => AxisOf(flat[i]) # AxisOf(flat[j]) /\ NormOf(flat[i]) # NormOf(flat[j])

\* Rows by decreasing norm
RECURSIVE SortDesc(_)
SortDesc(flat) ==
    IF flat = <<>> THEN <<>>
    ELSE LET m == CHOOSE i \in 1..Len(flat) :
                     \A j \in 1..Len(flat) : NormOf(flat[i]) >= NormOf(flat[j])
         IN <<flat[m]>> \o SortDesc(SubSeq(flat, 1, m - 1) \o SubSeq(flat, m + 1, Len(flat)))

\* u, s, vh = LA.svd(flat, full_matrices=False), u unused
svd(flat) ==
    LET sorted == SortDesc(flat)
    IN [s |-> [i \in 1..Len(sorted) |-> NormOf(sorted[i])],
        vh |-> [i \in 1..Len(sorted) |-> UnitOf(sorted[i])]]

cumsum(s) == [i \in 1..Len(s) |-> SeqSum(SubSeq(s, 1, i))]

\* cum_s = cumsum(s) / max(cumsum(s)); (np.where(cum_s >= 0.99)[0])[0] + 1.
\* max of an empty array raises; all-zero s gives nan and an empty np.where.
max_basis(s) ==
    LET cum_s == cumsum(s)
        hits == {i \in 1..Len(s) : 100 * cum_s[i] >= 99 * cum_s[Len(s)]}
    IN IF s = <<>> \/ cum_s[Len(s)] = 0 THEN Raise
       ELSE Return(CHOOSE i \in hits : \A j \in hits : i <= j)

\* ------------------------------------------------------------- fit
\* Xrscdt[Ytrain == class_idx]: the rows of the class, in batch order
class_rows(F, Y, class_idx) ==
    LET idx == SelectSeq([i \in 1..Len(F) |-> i], LAMBDA i : Y[i] = class_idx)
    IN [j \in 1..Len(idx) |-> F[idx[j]].vec]

\* v1[np.newaxis], v2[np.newaxis] of add_trans_samples, flattened
TransRows == << [a \in Axes |-> IF a = AxisV1 THEN NormV1 ELSE 0],
                [a \in Axes |-> IF a = AxisV2 THEN NormV2 ELSE 0] >>

\* add_trans_samples: v1, v2 of shape (features.shape[1], len(thetas))
\* concatenated after the class rows.  shape[1] of the empty batch of
\* shape (0,) raises; np.concatenate raises when the angle counts differ.
add_trans_samples(rows, shape) ==
    IF shape = <<>> THEN Raise
    ELSE IF shape[2] # Len(thetas) THEN Raise
    ELSE Return(rows \o TransRows)

\* flat of one class: reshape(shape[0], -1), which raises for shape[0] = 0
flat_of(F, Y, class_idx, no_deform_model) ==
    LET class_data == class_rows(F, Y, class_idx)
    IN IF no_deform_model
       THEN (IF class_data = <<>> THEN Raise ELSE Return(class_data))
       ELSE add_trans_samples(class_data, BatchShape(F))

\* The class loop of RSCDT_NS.fit from class_idx on.  st carries
\* self.subspaces, self.len_subspace and what the loop computed; an
\* exception leaves the loop with the state as changed so far.
RECURSIVE fit_loop(_, _, _, _, _)
fit_loop(F, Y, no_deform_model, class_idx, st) ==
    IF class_idx >= num_classes THEN st
    ELSE LET flat == flat_of(F, Y, class_idx, no_deform_model)
         IN IF ~flat.ok THEN [st EXCEPT !.ok = FALSE]
            ELSE LET usv == svd(flat.val)
                     r == max_basis(usv.s)
                     basis == Take(usv.vh, Len(flat.val))
                 IN IF ~r.ok THEN [st EXCEPT !.ok = FALSE]
                    ELSE fit_loop(F, Y, no_deform_model, class_idx + 1,
                           [st EXCEPT
                              !.len_subspace = IF r.val > @ THEN r.val ELSE @,
                              !.subspaces = Append(@, basis),
                              !.ranks = Append(@, r.val),
                              !.computed = Append(@, basis)])

\* The class loop of MY_RDCT_NS.fit: flat is built and its type printed;
\* the decomposition and the two assignments are commented out.
RECURSIVE my_fit_loop(_, _, _, _, _)
my_fit_loop(F, Y, no_deform_model, class_idx, st) ==
    IF class_idx >= num_classes THEN st
    ELSE IF ~flat_of(F, Y, class_idx, no_deform_model).ok
         THEN [st EXCEPT !.ok = FALSE]
         ELSE my_fit_loop(F, Y, no_deform_model, class_idx + 1, st)

fit_body(F, Y, no_deform_model) ==
    LET st == [subspaces |-> subspaces, len_subspace |-> len_subspace,
               ranks |-> <<>>, computed |-> <<>>, ok |-> TRUE]
    IN IF variant = "signed" THEN fit_loop(F, Y, no_deform_model, 0, st)
       ELSE my_fit_loop(F, Y, no_deform_model, 0, st)

\* --------------------------------------------------------- predict
\* np.argmin over the class axis for one sample: the first minimum
RECURSIVE argmin_from(_, _, _, _)
argmin_from(Dm, i, k, best) ==
    IF k > Len(Dm) THEN best
    ELSE argmin_from(Dm, i, k + 1, IF Dm[k][i] < Dm[best][i] THEN k ELSE best)

\* Mutant of argmin: the last minimum instead of the first
argmin_last(Dm, i) ==
    (CHOOSE k \in 1..Len(Dm) :
        /\ \A j \in 1..Len(Dm) : Dm[k][i] <= Dm[j][i]
        /\ \A j \in 1..Len(Dm) : Dm[j][i] = Dm[k][i] => j <= k) - 1

argmin(Dm, i) == argmin_from(Dm, i, 2, 1) - 1

\* predict after the batch transform: X = reshape([shape[0], -1]) raises
\* on the batch of shape (0,); self.subspaces[class_idx] raises when the
\* list is too short; np.stack of an empty list raises.
predict_body(F) ==
    IF F = <<>> \/ Len(subspaces) < num_classes \/ num_classes = 0 THEN Raise
    ELSE LET Dm == [k \in 1..num_classes |->
                      [i \in 1..Len(F) |->
                          Residual(F[i].vec, Take(subspaces[k], len_subspace))]]
         IN Return([D |-> Dm, preds |-> [i \in 1..Len(F) |-> argmin(Dm, i)]])

\* ----------------------------------------------------------- inputs
Batches(S, n) == UNION {[1..m -> S] : m \in 0..n}

\* Training inputs (Xtrain, Ytrain, no_deform_model) for nc classes on
\* which svd above is the decomposition LA.svd returns
TrainDomain(nc, X, Y, no_deform_model) ==
    \A k \in 0..(nc - 1) :
        LET rows == class_rows([j \in 1..Len(X) |-> [vec |-> ImageCoeffs[X[j]]]], Y, k)
        IN SvdExact(IF no_deform_model THEN rows ELSE rows \o TransRows)

TrainInputs ==
    [nc \in 1..MaxClasses |->
        UNION {{[X |-> X, Y |-> Y, ndm |-> b] :
                   Y \in {y \in [1..Len(X) -> 0..(nc - 1)] : TrainDomain(nc, X, y, b)}} :
               X \in Batches(TrainImages, MaxTrain), b \in BOOLEAN}]

\* ------------------------------------------------------------- Init
\* State after __init__(num_classes, thetas, rm_edge)
Init ==
    /\ variant \in {"signed", "unsigned"}
    /\ num_classes \in 1..MaxClasses
    /\ thetas \in {theta, LibTheta}
    /\ rm_edge \in BOOLEAN
    /\ subspaces = <<>>
    /\ len_subspace = 0
    /\ pc = "idle"
    /\ call = NoCall
    /\ pl = NoPool
    /\ splits = <<>>
    /\ results = <<>>
    /\ order = <<>>
    /\ outcome = "none"
    /\ features = <<>>
    /\ adapter_args = {}
    /\ ranks = <<>>
    /\ computed = <<>>
    /\ D = <<>>
    /\ preds = <<>>
    /\ counts = <<>>
    /\ nfits = 0
    /\ good = NoGood

config == <<variant, num_classes, thetas, rm_edge>>

\* ---------------------------------------------------------- actions
\* The caller's method after its batch transform ended with Fres
\* (a value or an exception): the class loop of fit, the residual loop
\* of predict, or nothing for a direct call of the batch transform.
AfterTransform(c, Fres) ==
    /\ pc' = "idle"
    /\ call' = IF c.op = "fit" THEN [c EXCEPT !.X = <<>>, !.Y = <<>>] ELSE c
    /\ counts' = IF c.op = "fit"
                 THEN [k \in 1..num_classes |->
                         Cardinality({i \in 1..Len(c.Y) : c.Y[i] = k - 1})]
                 ELSE <<>>
    /\ features' = IF Fres.ok THEN Fres.val ELSE <<>>
    /\ IF ~Fres.ok
       THEN /\ outcome' = "error"
            /\ ranks' = <<>> /\ computed' = <<>> /\ D' = <<>> /\ preds' = <<>>
            /\ UNCHANGED <<subspaces, len_subspace, good>>
       ELSE IF c.op = "fit"
       THEN LET st == fit_body(Fres.val, c.Y, c.ndm)
            IN /\ subspaces' = st.subspaces
               /\ len_subspace' = st.len_subspace
               /\ ranks' = st.ranks
               /\ computed' = st.computed
               /\ outcome' = IF st.ok THEN "ok" ELSE "error"
               /\ good' = IF st.ok
                          THEN [fitted |-> TRUE, ranks |-> st.ranks, bases |-> st.computed]
                          ELSE good
               /\ D' = <<>> /\ preds' = <<>>
       ELSE IF c.op = "predict"
       THEN LET p == predict_body(Fres.val)
            IN /\ outcome' = IF p.ok THEN "ok" ELSE "error"
               /\ D' = IF p.ok THEN p.val.D ELSE <<>>
               /\ preds' = IF p.ok THEN p.val.preds ELSE <<>>
               /\ ranks' = <<>> /\ computed' = <<>>
               /\ UNCHANGED <<subspaces, len_subspace, good>>
       ELSE /\ outcome' = "ok"
            /\ ranks' = <<>> /\ computed' = <<>> /\ D' = <<>> /\ preds' = <<>>
            /\ UNCHANGED <<subspaces, len_subspace, good>>

\* RSCDT_NS.rscdt_parallel: fun_rscdt_batch(X) in the calling process
rscdt_parallel(c) ==
    /\ adapter_args' = BatchArgs(c.X)
    /\ AfterTransform(c, fun_batch(c.X))
    /\ UNCHANGED <<pl, splits, results, order>>

\* MY_RDCT_NS.rcdt_parallel up to pl.map: n_cpu, array_split, mp.Pool.
\* np.array_split raises for n_cpu = 0, before the pool is made.
rcdt_parallel(c, cpu_count) ==
    LET n_cpu == Min2(cpu_count, Len(c.X))
    IN /\ adapter_args' = {}
       /\ order' = <<>>
       /\ IF n_cpu = 0
          THEN /\ pl' = NoPool /\ splits' = <<>> /\ results' = <<>>
               /\ AfterTransform(c, Raise)
          ELSE /\ pl' = [state |-> "running", workers |-> n_cpu, cpus |-> cpu_count]
               /\ splits' = array_split(c.X, n_cpu)
               /\ results' = [k \in 1..n_cpu |-> NotDone]
               /\ pc' = "mapping"
               /\ call' = c
               /\ counts' = <<>>
               /\ outcome' = "none"
               /\ features' = <<>>
               /\ ranks' = <<>> /\ computed' = <<>> /\ D' = <<>> /\ preds' = <<>>
               /\ UNCHANGED <<subspaces, len_subspace, good>>

Begin(c) ==
    /\ pc = "idle"
    /\ IF variant = "signed" THEN rscdt_parallel(c)
       ELSE \E cpu_count \in 1..MaxCpu : rcdt_parallel(c, cpu_count)
    /\ UNCHANGED config

\* fit(Xtrain, Ytrain, no_deform_model)
FitCall ==
    /\ \E in \in TrainInputs[num_classes] :
          Begin([op |-> "fit", X |-> in.X, Y |-> in.Y, ndm |-> in.ndm])
    /\ nfits' = nfits + 1

Fit == nfits < MaxFits /\ FitCall

\* The first fit of a fresh classifier
FitOnce == nfits = 0 /\ FitCall

\* predict(Xtest), use_gpu=False
Predict ==
    /\ \E X \in Batches(Images, MaxTest) :
          Begin([op |-> "predict", X |-> X, Y |-> <<>>, ndm |-> FALSE])
    /\ UNCHANGED nfits

\* rscdt_parallel(X) / rcdt_parallel(X) called directly
Transform ==
    /\ \E X \in Batches(Images, MaxBatch) :
          Begin([op |-> "transform", X |-> X, Y |-> <<>>, ndm |-> FALSE])
    /\ UNCHANGED nfits

\* A worker of the pool finishes fun_rcdt_batch on its chunk.  An
\* exception is re-raised by pl.map in the caller at once: the method is
\* left before pl.close() and pl.join().
WorkerFinish ==
    /\ pc = "mapping"
    /\ \E k \in 1..Len(splits) :
          /\ ~results[k].done
          /\ LET r == fun_batch(splits[k])
             IN /\ adapter_args' = adapter_args \cup BatchArgs(splits[k])
                /\ order' = Append(order, k)
                /\ IF r.ok
                   THEN /\ results' = [results EXCEPT ![k] = [done |-> TRUE, val |-> r.val]]
                        /\ UNCHANGED <<pc, call, outcome, features>>
                   ELSE /\ pc' = "idle"
                        /\ outcome' = "error"
                        /\ UNCHANGED <<results, call, features>>
    /\ UNCHANGED <<config, subspaces, len_subspace, pl, splits, ranks, computed,
                   D, preds, counts, nfits, good>>

\* pl.map returns the chunk results in chunk order; np.vstack, pl.close(),
\* pl.join(), and then the rest of the calling method.
MapReturn ==
    /\ pc = "mapping"
    /\ \A k \in 1..Len(results) : results[k].done
    /\ pl' = [pl EXCEPT !.state = "joined"]
    /\ AfterTransform(call, Return(vstack([k \in 1..Len(results) |-> results[k].val])))
    /\ UNCHANGED <<config, splits, results, order, adapter_args, nfits>>

\* The life of one classifier instance: fit and predict calls
Next == Fit \/ Predict \/ WorkerFinish \/ MapReturn

Spec == Init /\ [][Next]_vars

\* The batch transform alone, called once on a fresh classifier.  The
\* batch transform reads thetas and rm_edge only, so one class is enough.
TransformOnce == call.op = "none" /\ Transform

NextBatch == TransformOnce \/ WorkerFinish \/ MapReturn

InitBatch == Init /\ num_classes = 1

SpecBatch == InitBatch /\ [][NextBatch]_vars

\* One fit of a fresh classifier, then one predict.  predict leaves the
\* classifier as it found it (AfterTransform), so the first predict after
\* a fit sees the state every later one sees.
PredictOnce == call.op = "fit" /\ Predict

NextPredict == FitOnce \/ PredictOnce \/ WorkerFinish \/ MapReturn

SpecPredict == Init /\ [][NextPredict]_vars

\* ----------------------------------------------------------- claims
Returned(op) == pc = "idle" /\ call.op = op /\ outcome = "ok"

RECURSIVE SeqMax(_)
SeqMax(s) == IF s = <<>> THEN 0
             ELSE IF Head(s) > SeqMax(Tail(s)) THEN Head(s) ELSE SeqMax(Tail(s))

\* C1: every label predict returns is a class index in [0, num_classes)
\* whose residual for that sample is minimal over the classes, and the
\* smallest such index when several classes share the minimum.
C1_ArgminLowestMinimum ==
    Returned("predict") =>
        /\ Len(preds) = Len(call.X)
        /\ \A i \in 1..Len(preds) :
              /\ preds[i] \in 0..(num_classes - 1)
              /\ \A k \in 0..(num_classes - 1) :
                    /\ D[preds[i] + 1][i] <= D[k + 1][i]
                    /\ D[k + 1][i] = D[preds[i] + 1][i] => preds[i] <= k

\* predict returned for a sample on which two classes tie at a nonzero
\* minimum
C1_Witness ==
    /\ Returned("predict")
    /\ \E i \in 1..Len(preds) : \E k \in 0..(num_classes - 1) :
          k # preds[i] /\ D[k + 1][i] = D[preds[i] + 1][i] /\ D[k + 1][i] > 0

\* C2: after fit returns on a fresh classifier of either variant, there
\* are exactly num_classes stored bases, the basis at index k is the one
\* computed for class k, and len_subspace >= 1.
C2_FreshFitStoresBases ==
    (Returned("fit") /\ nfits = 1) =>
        /\ Len(subspaces) = num_classes
        /\ Len(computed) = num_classes
        /\ subspaces = computed
        /\ len_subspace >= 1

\* C3: the batch transform of N >= 1 images returns the single-image
\* transforms of images 0..N-1 in input order, whatever the number of
\* chunks and the order in which the workers finished.
C3_BatchInInputOrder ==
    Returned("transform") =>
        features = [j \in 1..Len(call.X) |-> fun_single(call.X[j]).val]

\* a batch of three distinct images went through two workers that
\* finished in the reverse of chunk order
C3_Witness ==
    /\ Returned("transform")
    /\ Len(call.X) = 3
    /\ \A i, j \in 1..3 : i # j => call.X[i] # call.X[j]
    /\ pl.workers = 2
    /\ order = <<2, 1>>

\* C4: after fit every stored basis has at least len_subspace rows, for
\* any distribution of the training samples over the classes.
C4_BasisRowsSuffice ==
    (Returned("fit") /\ \A k \in 1..Len(counts) : counts[k] > 0) =>
        \A k \in 1..Len(subspaces) : Len(subspaces[k]) >= len_subspace

\* C5: after fit completes, len_subspace is at least the rank computed
\* for every class during that fit and equals the largest of them.
C5_LenIsMaxRank ==
    (Returned("fit") /\ ranks # <<>>) =>
        /\ \A k \in 1..Len(ranks) : len_subspace >= ranks[k]
        /\ len_subspace = SeqMax(ranks)

\* C6: when some class has no training sample, fit fails with an error,
\* for both values of no_deform_model.
C6_EmptyClassFails ==
    (pc = "idle" /\ call.op = "fit" /\ \E k \in 1..Len(counts) : counts[k] = 0) =>
        outcome = "error"

\* C7: the batch transform of an empty batch returns an empty result,
\* makes no pool and raises nothing; for N >= 1 the pool never has more
\* workers or chunks than min(available CPUs, N).
C7_EmptyBatchReturnsEmpty ==
    /\ (pc = "idle" /\ call.op = "transform" /\ call.X = <<>>) =>
           outcome = "ok" /\ features = <<>> /\ pl.state = "none"
    /\ pc = "mapping" =>
           /\ pl.workers <= Min2(pl.cpus, Len(call.X))
           /\ Len(splits) <= Min2(pl.cpus, Len(call.X))

\* C8: every call of the transform adapter passes the configured angles
\* and edge-trim flag, so every coefficient array has one column per
\* configured angle and two rows less exactly when edge-trim is on.
C8_AdapterPassesConfig ==
    /\ \A a \in adapter_args : a.angles = thetas /\ a.edge = rm_edge
    /\ \A j \in 1..Len(features) :
          /\ features[j].cols = Len(thetas)
          /\ features[j].rows = IF rm_edge THEN ProjLen - 2 ELSE ProjLen

\* C9: when a batch-transform call has handed control back, its pool is
\* closed and joined, also when a worker raised during the map.
C9_PoolJoinedOnReturn ==
    pc = "idle" => pl.state \in {"none", "joined"}

\* C10: after any sequence of fit calls on a signed classifier, one of
\* which returned, there are exactly num_classes bases, they are those of
\* the most recent fit that returned, and len_subspace is its largest rank.
C10_RefitReplaces ==
    (pc = "idle" /\ variant = "signed" /\ good.fitted) =>
        /\ Len(subspaces) = num_classes
        /\ subspaces = good.bases
        /\ len_subspace = SeqMax(good.ranks)

====
